---- MODULE Spec2Model ----
(***************************************************************************)
(* The multi-account gateway of src/drive.go: the account pool and its     *)
(* rotation, the per-call clients, the synchronous calls (GetObject,       *)
(* FileSize, GetObjectsByParent, GetFileByNameAndParent, Open) and the     *)
(* background change poller (startAutoRefresh).                            *)
(*                                                                         *)
(* Processes: the callers of the synchronous API (goroutines of the upper  *)
(* layer) and the poller goroutine started by NewDriveClient.  The Drive   *)
(* struct is shared without any lock, so every read and every write of     *)
(* d.activeAccountID is a step of its own.                                 *)
(***************************************************************************)
EXTENDS Integers, Sequences, FiniteSets, TLC

\* ------------------------------------------------------------------ bounds
MaxAccounts == 2     \* pools of 1..MaxAccounts accounts
MaxPages == 2        \* a listing is spread over 1..MaxPages pages
MaxPageLen == 2      \* a page holds 0..MaxPageLen files
MaxClock == 4        \* the wall clock runs over 0..MaxClock units
Res == 2             \* clock units per second (time.Time is finer than RFC3339)

MaxIndex == MaxAccounts + 1

Callers == {"c1", "c2"}
Poller == "poller"
Procs == Callers \cup {Poller}

VARIABLES
    configs,          \* d.configs
    tokens,           \* d.tokens
    activeAccountID,  \* d.activeAccountID
    pc,               \* where each process stands
    op,               \* the exported function a caller is running
    arg,              \* its argument (the name looked up)
    inner,            \* TRUE inside the FileSize that GetObject calls
    tmp,              \* rotateAccounts: the value read by d.activeAccountID++
    half,             \* getClient: the config already picked
    client,           \* the client local of the running function
    client2,          \* the client local of the inner FileSize
    o,                \* GetObject: the raw file fetched
    pageToken,        \* the pageToken local of a pagination loop
    files,            \* GetObjectsByParent: the files local
    reqs,             \* the remote requests issued by the running invocation
    ret,              \* what the last finished invocation returned
    fresh,            \* the client locals whose getClient began after the last
                      \* write of d.activeAccountID
    listing,          \* remote service: the pages of the parent's children
    now,              \* the wall clock
    lastCheck,        \* startAutoRefresh: lastCheck
    checkDate,        \* startAutoRefresh: checkDate (an RFC3339 string)
    mtime,            \* remote service: modification time of each file
    tick,             \* what the current poll tick has done so far
    resp,             \* the last response the running invocation received
    accounts,         \* d.accounts
    tokenFile,        \* the token file at tokenPath
    auth              \* NewDriveClient and authorize: where they stand, and
                      \* what they have done

vars == <<configs, tokens, activeAccountID, pc, op, arg, inner, tmp, half,
          client, client2, o, pageToken, files, reqs, ret, fresh, listing,
          now, lastCheck, checkDate, mtime, tick, resp, accounts, tokenFile,
          auth>>

poolVars == <<configs, tokens>>
pollVars == <<now, lastCheck, checkDate, mtime, tick>>
bootVars == <<accounts, tokenFile, auth>>

\* ------------------------------------------------------------ plain values
NoClient == [cfg |-> 0, tok |-> 0]
NoFile == [Id |-> "", Title |-> "", FileSize |-> 0]
NoRet == [op |-> "", err |-> "", val |-> <<>>]
NoResp == [status |-> 0, length |-> 0, closed |-> TRUE, items |-> <<>>]

RECURSIVE Flatten(_)
Flatten(ss) == IF ss = <<>> THEN <<>> ELSE Head(ss) \o Flatten(Tail(ss))

\* ------------------------------------------------------- the remote service
\* What the service may report as a file's size, and as a download's
\* Content-Length (-1: unknown length).
FileSizes == {0, 3}
ContentLengths == {-1, 5}
Names == {"a", "b"}

RawFile(i) == [Id |-> i, Title |-> IF i % 2 = 1 THEN "a" ELSE "b", FileSize |-> i]

\* The children of the parent, numbered in the order the service emits them
\* and cut into pages of the given lengths.
RECURSIVE PagesFrom(_, _)
PagesFrom(lens, first) ==
    IF lens = <<>> THEN <<>>
    ELSE <<[i \in 1..Head(lens) |-> RawFile(first + i - 1)]>>
         \o PagesFrom(Tail(lens), first + Head(lens))

Listings ==
    { PagesFrom(lens, 1) :
        lens \in UNION { [1..p -> 0..MaxPageLen] : p \in 1..MaxPages } }

\* The items a name query may return.
ItemLists ==
    { <<>>, <<RawFile(1)>>, <<RawFile(2)>>, <<RawFile(2), RawFile(1)>>,
      <<RawFile(3), RawFile(1)>> }

\* The service answers a page request that carries continuation token t with
\* page t + 1; token 0 is the empty string (no token).
ServePage(pages, t) ==
    [Items |-> pages[t + 1],
     NextPageToken |-> IF t + 1 < Len(pages) THEN t + 1 ELSE 0]

\* ------------------------------------------------------------ ObjectMapper
\* uint64(x) of an int64 x, as four 16-bit limbs, most significant first
\* (for -2^16 <= x < 2^16).
Uint64(x) ==
    IF x >= 0 THEN <<0, 0, 0, x>> ELSE <<65535, 65535, 65535, 65536 + x>>

mapDriveToAPIObject(file) ==
    [ID |-> file.Id, Name |-> file.Title, Size |-> Uint64(file.FileSize)]

\* The loops of lines 74-80 and 169-171: every item of a page is mapped, in order.
MapObjects(items) == [i \in 1..Len(items) |-> mapDriveToAPIObject(items[i])]

\* ------------------------------------------------------------- AccountPool
\* d.configs[i-1] / d.tokens[i-1] panic when the index is out of range.
InRange(i, s) == i \in 1..Len(s)

\* A remote request as issued: the call, the credential of the client it went
\* through, the continuation token it carried, and whether it was answered.
Request(api, cred, t, ok) == [api |-> api, cred |-> cred, token |-> t, ok |-> ok]

\* An index out of range panics, and a panic in any goroutine ends the process.
Panic == [p \in Procs |-> "panic"]

\* A function returns: the locals of the invocation die, the requests it
\* issued and the client it used stay visible until the next call.
Return(p, r) ==
    /\ pc' = [pc EXCEPT ![p] = "idle"]
    /\ ret' = [ret EXCEPT ![p] = r]
    /\ inner' = [inner EXCEPT ![p] = FALSE]
    /\ half' = [half EXCEPT ![p] = 0]
    /\ o' = [o EXCEPT ![p] = NoFile]
    /\ pageToken' = [pageToken EXCEPT ![p] = 0]
    /\ files' = [files EXCEPT ![p] = <<>>]

\* ---- rotateAccounts
RotateCall(p) ==
    /\ pc[p] = "idle"
    /\ pc' = [pc EXCEPT ![p] = "rotate_cmp"]
    /\ op' = [op EXCEPT ![p] = "rotateAccounts"]
    /\ ret' = [ret EXCEPT ![p] = NoRet]
    /\ reqs' = [reqs EXCEPT ![p] = <<>>]
    /\ client' = [client EXCEPT ![p] = NoClient]
    /\ client2' = [client2 EXCEPT ![p] = NoClient]
    /\ resp' = [resp EXCEPT ![p] = NoResp]
    /\ UNCHANGED <<poolVars, bootVars, activeAccountID, arg, inner, tmp, half, o,
                   pageToken, files, fresh, listing, pollVars>>

\* A comparison that lets the index step one past the pool before it wraps.
WrapsLate(i, n) == i > n

\* The comparison of line 252.
Wraps(i, n) == (i + 1) > n

RotateCompare(p) ==
    /\ pc[p] = "rotate_cmp"
    /\ pc' = [pc EXCEPT ![p] = IF Wraps(activeAccountID, Len(configs))
                                THEN "rotate_reset" ELSE "rotate_read"]
    /\ UNCHANGED <<poolVars, bootVars, resp, activeAccountID, op, arg, inner, tmp, half, client,
                   client2, o, pageToken, files, reqs, ret, fresh, listing,
                   pollVars>>

RotateReset(p) ==
    /\ pc[p] = "rotate_reset"
    /\ activeAccountID' = 1
    /\ fresh' = [q \in Procs |-> {}]
    /\ Return(p, [op |-> "rotateAccounts", err |-> "nil", val |-> <<>>])
    /\ UNCHANGED <<poolVars, bootVars, resp, op, arg, tmp, client, client2, reqs, listing,
                   pollVars>>

\* d.activeAccountID++ : a read ...
RotateRead(p) ==
    /\ pc[p] = "rotate_read"
    /\ tmp' = [tmp EXCEPT ![p] = activeAccountID]
    /\ pc' = [pc EXCEPT ![p] = "rotate_write"]
    /\ UNCHANGED <<poolVars, bootVars, resp, activeAccountID, op, arg, inner, half, client,
                   client2, o, pageToken, files, reqs, ret, fresh, listing,
                   pollVars>>

\* ... and a write.  Racing rotations can drive the index arbitrarily far
\* past the pool; the model follows it up to MaxIndex.
RotateWrite(p) ==
    /\ pc[p] = "rotate_write"
    /\ tmp[p] + 1 <= MaxIndex
    /\ activeAccountID' = tmp[p] + 1
    /\ tmp' = [tmp EXCEPT ![p] = 0]
    /\ fresh' = [q \in Procs |-> {}]
    /\ Return(p, [op |-> "rotateAccounts", err |-> "nil", val |-> <<>>])
    /\ UNCHANGED <<poolVars, bootVars, resp, op, arg, client, client2, reqs, listing, pollVars>>

\* ---- getClient / getNativeClient
\* The two index expressions of lines 243 and 248: each reads
\* d.activeAccountID on its own.
ConfigAt(i) == configs[i]

\* A token lookup that forgets the active index.
TokenAtFirst(i) == tokens[1]

TokenAt(i) == tokens[i]

\* Where a function goes on once it holds its client.
AfterClient(f, in) ==
    CASE in -> "FileSize_download"
      [] f = "GetObject" -> "GetObject_fetch"
      [] f = "FileSize" -> "FileSize_download"
      [] f = "GetObjectsByParent" -> "GetObjectsByParent_page"
      [] f = "GetFileByNameAndParent" -> "GetFileByNameAndParent_query"
      [] f = "startAutoRefresh" -> "startAutoRefresh_init"

SyncOps == {"GetObject", "FileSize", "GetObjectsByParent", "GetFileByNameAndParent"}

\* A caller enters one of the exported functions; each begins with getClient.
Call(p) ==
    /\ pc[p] = "idle"
    /\ \E f \in SyncOps, a \in Names :
          /\ f # "GetFileByNameAndParent" => a = "a"
          /\ op' = [op EXCEPT ![p] = f]
          /\ arg' = [arg EXCEPT ![p] = a]
    /\ pc' = [pc EXCEPT ![p] = "getClient"]
    /\ ret' = [ret EXCEPT ![p] = NoRet]
    /\ reqs' = [reqs EXCEPT ![p] = <<>>]
    /\ client' = [client EXCEPT ![p] = NoClient]
    /\ client2' = [client2 EXCEPT ![p] = NoClient]
    /\ fresh' = [fresh EXCEPT ![p] = {"client"}]
    /\ resp' = [resp EXCEPT ![p] = NoResp]
    /\ UNCHANGED <<poolVars, bootVars, activeAccountID, inner, tmp, half, o,
                   pageToken, files, listing, pollVars>>

\* d.configs[d.activeAccountID-1]
GetClientConfig(p) ==
    /\ pc[p] = "getClient"
    /\ IF InRange(activeAccountID, configs)
       THEN /\ half' = [half EXCEPT ![p] = ConfigAt(activeAccountID)]
            /\ pc' = [pc EXCEPT ![p] = "getClient_tok"]
       ELSE /\ pc' = Panic
            /\ UNCHANGED half
    /\ UNCHANGED <<poolVars, bootVars, resp, activeAccountID, op, arg, inner, tmp, client,
                   client2, o, pageToken, files, reqs, ret, fresh, listing,
                   pollVars>>

\* The result of an inner FileSize, as GetObject uses it (lines 138-145).
GetObjectResult(file, size, failed) ==
    [op |-> "GetObject", err |-> "nil",
     val |-> <<mapDriveToAPIObject(
                 [file EXCEPT !.FileSize = IF failed THEN file.FileSize ELSE size])>>]

\* A poller that asks for its client again after a failure.
PollerOnErrorRetry == "getClient"

\* Lines 51-54: the poller logs the error and returns.
PollerOnError == "returned"

\* &d.tokens[d.activeAccountID-1], then gdrive.New(client), which may fail.
GetClientToken(p) ==
    /\ pc[p] = "getClient_tok"
    /\ IF ~InRange(activeAccountID, tokens)
       THEN /\ pc' = Panic
            /\ UNCHANGED <<client, client2, ret, inner, half, o, pageToken, files>>
       ELSE \E ok \in BOOLEAN :
            IF ok
            THEN /\ IF inner[p]
                    THEN /\ client2' = [client2 EXCEPT ![p] =
                                 [cfg |-> half[p], tok |-> TokenAt(activeAccountID)]]
                         /\ UNCHANGED client
                    ELSE /\ client' = [client EXCEPT ![p] =
                                 [cfg |-> half[p], tok |-> TokenAt(activeAccountID)]]
                         /\ UNCHANGED client2
                 /\ pc' = [pc EXCEPT ![p] = AfterClient(op[p], inner[p])]
                 /\ half' = [half EXCEPT ![p] = 0]
                 /\ UNCHANGED <<ret, inner, o, pageToken, files>>
            ELSE /\ UNCHANGED <<client, client2>>
                 /\ IF p = Poller
                    THEN /\ pc' = [pc EXCEPT ![p] = PollerOnError]
                         /\ half' = [half EXCEPT ![p] = 0]
                         /\ UNCHANGED <<ret, inner, o, pageToken, files>>
                    ELSE Return(p, IF inner[p]
                                   THEN GetObjectResult(o[p], 0, TRUE)
                                   ELSE [op |-> op[p], err |-> "client", val |-> <<>>])
    /\ UNCHANGED <<poolVars, bootVars, resp, activeAccountID, op, arg, tmp, reqs, fresh, listing,
                   pollVars>>

\* ---- Open
OpenCall(p) ==
    /\ pc[p] = "idle"
    /\ op' = [op EXCEPT ![p] = "Open"]
    /\ pc' = [pc EXCEPT ![p] = "getNativeClient"]
    /\ ret' = [ret EXCEPT ![p] = NoRet]
    /\ reqs' = [reqs EXCEPT ![p] = <<>>]
    /\ client' = [client EXCEPT ![p] = NoClient]
    /\ client2' = [client2 EXCEPT ![p] = NoClient]
    /\ fresh' = [fresh EXCEPT ![p] = {"client"}]
    /\ resp' = [resp EXCEPT ![p] = NoResp]
    /\ UNCHANGED <<poolVars, bootVars, activeAccountID, arg, inner, tmp, half, o,
                   pageToken, files, listing, pollVars>>

GetNativeClientConfig(p) ==
    /\ pc[p] = "getNativeClient"
    /\ IF InRange(activeAccountID, configs)
       THEN /\ half' = [half EXCEPT ![p] = ConfigAt(activeAccountID)]
            /\ pc' = [pc EXCEPT ![p] = "getNativeClient_tok"]
       ELSE /\ pc' = Panic
            /\ UNCHANGED half
    /\ UNCHANGED <<poolVars, bootVars, resp, activeAccountID, op, arg, inner, tmp, client,
                   client2, o, pageToken, files, reqs, ret, fresh, listing,
                   pollVars>>

\* The native client is handed to GetBufferInstance, whose result Open returns.
GetNativeClientToken(p) ==
    /\ pc[p] = "getNativeClient_tok"
    /\ IF ~InRange(activeAccountID, tokens)
       THEN /\ pc' = Panic
            /\ UNCHANGED <<client, ret, inner, half, o, pageToken, files>>
       ELSE /\ client' = [client EXCEPT ![p] =
                   [cfg |-> half[p], tok |-> TokenAt(activeAccountID)]]
            /\ Return(p, [op |-> "Open", err |-> "nil", val |-> <<>>])
    /\ UNCHANGED <<poolVars, bootVars, resp, activeAccountID, op, arg, tmp, client2, reqs, fresh,
                   listing, pollVars>>

\* ---- GetObject: client.Files.Get(id).Do()
TheFile(size) == [Id |-> 1, Title |-> "a", FileSize |-> size]

\* A test that asks for the size again whatever the metadata reported.
NeedsFollowUpAlways(file) == file.FileSize >= 0

\* Line 137: the follow-up is made for a reported size of zero.
NeedsFollowUp(file) == file.FileSize = 0

GetObjectFetch(p) ==
    /\ pc[p] = "GetObject_fetch"
    /\ \E failed \in BOOLEAN, size \in FileSizes :
          /\ failed => size = 0
          /\ reqs' = [reqs EXCEPT ![p] =
                 Append(@, Request("Files.Get", client[p], 0, ~failed))]
          /\ IF failed
             THEN /\ Return(p, [op |-> "GetObject", err |-> "fetch", val |-> <<>>])
                  /\ UNCHANGED fresh
             ELSE IF NeedsFollowUp(TheFile(size))
             THEN \* d.FileSize(id): a new frame, which gets a client of its own
                  /\ o' = [o EXCEPT ![p] = TheFile(size)]
                  /\ inner' = [inner EXCEPT ![p] = TRUE]
                  /\ pc' = [pc EXCEPT ![p] = "getClient"]
                  /\ fresh' = [fresh EXCEPT ![p] = @ \cup {"client2"}]
                  /\ UNCHANGED <<ret, half, pageToken, files>>
             ELSE /\ Return(p, GetObjectResult(TheFile(size), 0, TRUE))
                  /\ UNCHANGED fresh
    /\ UNCHANGED <<poolVars, bootVars, resp, activeAccountID, op, arg, tmp, client, client2,
                   listing, pollVars>>

\* ---- FileSize: client.Files.Get(id).Download(), then the status check
StatusCodes == {200, 403}

FileSizeResult(status, length) ==
    IF status = 200
    THEN [op |-> "FileSize", err |-> "nil", val |-> <<length>>]
    ELSE [op |-> "FileSize", err |-> "status", val |-> <<0, status>>]

FileSizeDownload(p) ==
    /\ pc[p] = "FileSize_download"
    /\ \E failed \in BOOLEAN, status \in StatusCodes, length \in ContentLengths :
          LET r == IF failed
                   THEN [op |-> "FileSize", err |-> "download", val |-> <<0>>]
                   ELSE FileSizeResult(status, length)
          IN  /\ failed => (status = 200 /\ length = -1)
              /\ reqs' = [reqs EXCEPT ![p] =
                     Append(@, Request("Files.Get.Download",
                                       IF inner[p] THEN client2[p] ELSE client[p],
                                       0, ~failed))]
              /\ status # 200 => length = -1
              \* neither return path closes httpResponse.Body
              /\ resp' = [resp EXCEPT ![p] =
                     IF failed THEN NoResp
                     ELSE [status |-> status, length |-> length,
                           closed |-> FALSE, items |-> <<>>]]
              /\ Return(p, IF inner[p]
                           THEN GetObjectResult(o[p], r.val[1], r.err # "nil")
                           ELSE r)
    /\ UNCHANGED <<poolVars, bootVars, activeAccountID, op, arg, tmp, client, client2, fresh,
                   listing, pollVars>>

\* ---- GetObjectsByParent: one turn of the loop of lines 157-177
\* A loop that ignores the continuation token of the page it got.
NextTokenDropped(r) == 0

\* The token the next request carries (lines 160-162, 172).
NextToken(r) == r.NextPageToken

\* A listing that surfaces the page-fetch error instead of swallowing it.
ListingOnErrorPropagated(fs) ==
    [op |-> "GetObjectsByParent", err |-> "query", val |-> <<>>]

\* Lines 165-167 and 179: a failed page fetch breaks out of the loop, and the
\* function returns what it has with a nil error.
ListingOnError(fs) == [op |-> "GetObjectsByParent", err |-> "nil", val |-> fs]

GetObjectsByParentPage(p) ==
    /\ pc[p] = "GetObjectsByParent_page"
    /\ \E ok \in BOOLEAN :
          /\ reqs' = [reqs EXCEPT ![p] =
                 Append(@, Request("Files.List", client[p], pageToken[p], ok))]
          /\ IF ~ok
             THEN Return(p, ListingOnError(files[p]))
             ELSE LET r == ServePage(listing, pageToken[p])
                      all == files[p] \o MapObjects(r.Items)
                  IN  IF NextToken(r) = 0
                      THEN Return(p, [op |-> "GetObjectsByParent", err |-> "nil",
                                      val |-> all])
                      ELSE /\ files' = [files EXCEPT ![p] = all]
                           /\ pageToken' = [pageToken EXCEPT ![p] = NextToken(r)]
                           /\ UNCHANGED <<pc, ret, inner, half, o>>
    /\ UNCHANGED <<poolVars, bootVars, resp, activeAccountID, op, arg, tmp, client, client2, fresh,
                   listing, pollVars>>

\* ---- GetFileByNameAndParent: the query of lines 189-192, then the scan
\* The one directory the model queries; the error message of line 199 names it.
Parent == "root"

\* A scan that keeps the last item with the title.
RECURSIVE LastMatch(_, _)
LastMatch(items, name) ==
    IF items = <<>> THEN <<>>
    ELSE IF LastMatch(Tail(items), name) # <<>>
    THEN LastMatch(Tail(items), name)
    ELSE IF name = Head(items).Title THEN <<Head(items)>>
    ELSE <<>>

RECURSIVE FirstMatch(_, _)
FirstMatch(items, name) ==
    IF items = <<>> THEN <<>>
    ELSE IF name = Head(items).Title THEN <<Head(items)>>
    ELSE FirstMatch(Tail(items), name)

GetFileByNameAndParentQuery(p) ==
    /\ pc[p] = "GetFileByNameAndParent_query"
    /\ \E failed \in BOOLEAN, items \in ItemLists :
          /\ failed => items = <<>>
          /\ reqs' = [reqs EXCEPT ![p] =
                 Append(@, Request("Files.List", client[p], 0, ~failed))]
          /\ IF failed
             THEN /\ Return(p, [op |-> op[p], err |-> "query", val |-> <<>>])
                  /\ UNCHANGED resp
             ELSE /\ resp' = [resp EXCEPT ![p] =
                         [status |-> 200, length |-> 0, closed |-> TRUE,
                          items |-> items]]
                  /\ pc' = [pc EXCEPT ![p] = "GetFileByNameAndParent_scan"]
                  /\ UNCHANGED <<ret, inner, half, o, pageToken, files>>
    /\ UNCHANGED <<poolVars, bootVars, activeAccountID, op, arg, tmp, client,
                   client2, fresh, listing, pollVars>>

\* Lines 194-199: the scan of r.Items, after which r is out of scope.
GetFileByNameAndParentScan(p) ==
    /\ pc[p] = "GetFileByNameAndParent_scan"
    /\ Return(p, IF FirstMatch(resp[p].items, arg[p]) = <<>>
                 THEN [op |-> op[p], err |-> "notfound",
                       val |-> <<arg[p], Parent>>]
                 ELSE [op |-> op[p], err |-> "nil",
                       val |-> FirstMatch(resp[p].items, arg[p])])
    /\ resp' = [resp EXCEPT ![p] = NoResp]
    /\ UNCHANGED <<poolVars, bootVars, activeAccountID, op, arg, tmp, client,
                   client2, reqs, fresh, listing, pollVars>>

\* ------------------------------------------------------------ ChangePoller
PollFiles == {1, 2}

\* lastCheck.Format(time.RFC3339): the layout has no fractional seconds, so
\* the string names a whole second; it is modelled by that number of seconds.
FormatRFC3339(t) == t \div Res

\* The instant (in clock units) the service reads from such a string.
ParseRFC3339(str) == str * Res

RECURSIVE SortedSeq(_)
SortedSeq(S) ==
    IF S = {} THEN <<>>
    ELSE LET m == CHOOSE x \in S : \A y \in S : x <= y
         IN  <<m>> \o SortedSeq(S \ {m})

\* Files.List().Q("modifiedTime > '<checkDate>'"): the matching files, one
\* file a page.
ChangePages(str) ==
    LET hit == SortedSeq({f \in PollFiles : mtime[f] > ParseRFC3339(str)})
    IN  IF hit = <<>> THEN << <<>> >>
        ELSE [k \in 1..Len(hit) |-> <<RawFile(hit[k])>>]

NoTick == [n |-> 0, prevStart |-> 0, start |-> 0, reqs |-> <<>>,
           served |-> <<>>, stored |-> <<>>, aborted |-> FALSE,
           afterAbort |-> FALSE]

\* Line 55: lastCheck := time.Now()
PollInit ==
    /\ pc[Poller] = "startAutoRefresh_init"
    /\ lastCheck' = now
    /\ tick' = [NoTick EXCEPT !.start = now]
    /\ pc' = [pc EXCEPT ![Poller] = "poll_wait"]
    /\ UNCHANGED <<poolVars, bootVars, resp, activeAccountID, op, arg, inner, tmp, half, client,
                   client2, o, pageToken, files, reqs, ret, fresh, listing, now,
                   checkDate, mtime>>

\* The two assignments of lines 59-60 in the other order.
TickAssignSwapped(lc, clock) ==
    [checkDate |-> FormatRFC3339(clock), lastCheck |-> clock]

\* Lines 59-60: what a tick assigns to checkDate and lastCheck, given the
\* lastCheck it finds and the clock it reads.
TickAssign(lc, clock) == [checkDate |-> FormatRFC3339(lc), lastCheck |-> clock]

\* The ticker fires (a period after the last time it fired): lines 58-61.
PollTick ==
    /\ pc[Poller] = "poll_wait"
    /\ now > lastCheck
    /\ checkDate' = TickAssign(lastCheck, now).checkDate
    /\ lastCheck' = TickAssign(lastCheck, now).lastCheck
    /\ pageToken' = [pageToken EXCEPT ![Poller] = 0]
    /\ tick' = [NoTick EXCEPT !.n = tick.n + 1, !.prevStart = tick.start,
                              !.start = now, !.afterAbort = tick.aborted]
    /\ pc' = [pc EXCEPT ![Poller] = "poll_page"]
    /\ UNCHANGED <<poolVars, bootVars, resp, activeAccountID, op, arg, inner, tmp, half, client,
                   client2, o, files, reqs, ret, fresh, listing, now, mtime>>

\* A loop that asks again for a page whose fetch failed.
AfterPageRetry(ok, next) == IF ok /\ next = 0 THEN "poll_wait" ELSE "poll_page"

\* Where the loop of lines 62-86 goes after a page request.
AfterPage(ok, next) == IF ok /\ next # 0 THEN "poll_page" ELSE "poll_wait"

\* One turn of the loop of lines 62-86.
PollPage ==
    /\ pc[Poller] = "poll_page"
    /\ \E ok \in BOOLEAN :
          LET r == ServePage(ChangePages(checkDate), pageToken[Poller])
              q == [bound |-> checkDate, token |-> pageToken[Poller],
                    cred |-> client[Poller], ok |-> ok]
          IN  /\ tick' = IF ok
                         THEN [tick EXCEPT !.reqs = Append(@, q),
                                  !.served = Append(@, r.Items),
                                  !.stored = @ \o MapObjects(r.Items)]
                         ELSE [tick EXCEPT !.reqs = Append(@, q),
                                           !.aborted = TRUE]
              /\ pageToken' = [pageToken EXCEPT ![Poller] =
                                  IF ok THEN NextToken(r) ELSE @]
              /\ pc' = [pc EXCEPT ![Poller] = AfterPage(ok, NextToken(r))]
    /\ UNCHANGED <<poolVars, bootVars, resp, activeAccountID, op, arg, inner, tmp, half, client,
                   client2, o, files, reqs, ret, fresh, listing, now, lastCheck,
                   checkDate, mtime>>

\* ---- the environment of the poller: time passes, files are modified
AdvanceClock ==
    /\ now < MaxClock
    /\ now' = now + 1
    /\ UNCHANGED <<poolVars, bootVars, resp, activeAccountID, pc, op, arg, inner, tmp, half,
                   client, client2, o, pageToken, files, reqs, ret, fresh,
                   listing, lastCheck, checkDate, mtime, tick>>

Modify(f) ==
    /\ mtime[f] < now
    /\ mtime' = [mtime EXCEPT ![f] = now]
    /\ UNCHANGED <<poolVars, bootVars, resp, activeAccountID, pc, op, arg, inner, tmp, half,
                   client, client2, o, pageToken, files, reqs, ret, fresh,
                   listing, now, lastCheck, checkDate, tick>>

\* ------------------------------------------- NewDriveClient and authorize
\* The token file holds at most this many tokens.
MaxStored == MaxAccounts + 1

\* The token account a's consent exchange returns (getTokenFromWeb), and the
\* j-th token of the token file.
WebToken(a) == a
StoredToken(j) == 0 - j

\* The token file: unreadable (missing included), not JSON, or a JSON list.
TokenFiles ==
    {[kind |-> k, toks |-> <<>>] : k \in {"unreadable", "malformed"}}
    \cup {[kind |-> "tokens", toks |-> [j \in 1..k |-> StoredToken(j)]] :
            k \in 0..MaxStored}

\* Lines 260-268: a read error gives the empty list, and so does content
\* that does not parse, json.Unmarshal's error being ignored.
getTokens(file) == IF file.kind = "tokens" THEN file.toks ELSE <<>>

NoAuth == [pc |-> "authorize", i |-> 0, loaded |-> <<>>, exchanges |-> <<>>,
           stores |-> <<>>, written |-> FALSE, err |-> ""]

\* A test that also sends a store with exactly one token per account to the
\* consent exchanges.
NeedsConsentStrict(ts, as) == Len(ts) <= Len(as)

\* Line 204.
NeedsConsent(ts, as) == Len(ts) < Len(as)

\* Lines 203-204: load the token file, then take one of the two branches.
AuthorizeLoad ==
    /\ auth.pc = "authorize"
    /\ tokens' = getTokens(tokenFile)
    /\ auth' = [auth EXCEPT !.loaded = tokens', !.i = 1,
                   !.pc = IF NeedsConsent(tokens', accounts)
                          THEN "getTokenFromWeb" ELSE "configs"]
    /\ UNCHANGED <<configs, accounts, tokenFile, resp, activeAccountID, pc,
                   op, arg, inner, tmp, half, client, client2, o, pageToken,
                   files, reqs, ret, fresh, listing, pollVars>>

\* A loop that stops after its first account.
ConsentLoopOnce(i, n) == "storeTokens"

\* The range loop of line 205: on to the next account, or out of the loop.
ConsentLoop(i, n) == IF i < n THEN "getTokenFromWeb" ELSE "storeTokens"

\* Lines 206-218: one turn of the loop. getTokenFromWeb ends the process with
\* log.Fatalf when the code cannot be read or exchanged.
GetTokenFromWeb ==
    /\ auth.pc = "getTokenFromWeb"
    /\ \E ok \in BOOLEAN :
          IF ok
          THEN /\ configs' = Append(configs, accounts[auth.i])
               /\ tokens' = Append(tokens, WebToken(accounts[auth.i]))
               /\ auth' = [auth EXCEPT
                              !.exchanges = Append(@, accounts[auth.i]),
                              !.i = @ + 1,
                              !.pc = ConsentLoop(auth.i, Len(accounts))]
          ELSE /\ auth' = [auth EXCEPT !.pc = "fatal"]
               /\ UNCHANGED <<configs, tokens>>
    /\ UNCHANGED <<accounts, tokenFile, resp, activeAccountID, pc, op, arg,
                   inner, tmp, half, client, client2, o, pageToken, files,
                   reqs, ret, fresh, listing, pollVars>>

\* Lines 270-277: only json.Marshal's error is returned; the result of
\* ioutil.WriteFile is dropped.
storeTokens(marshalled, wrote) == IF marshalled THEN "nil" ELSE "marshal"

\* What a WriteFile that failed leaves at the path.
WriteOutcomes == {"written", "untouched", "truncated"}

\* Lines 220-222: storeTokens(tokenPath, d.tokens); its error is authorize's,
\* and NewDriveClient's (lines 40-42).
AuthorizeStore ==
    /\ auth.pc = "storeTokens"
    /\ \E marshalled \in BOOLEAN, w \in WriteOutcomes :
          /\ ~marshalled => w = "untouched"
          /\ tokenFile' = IF w = "written"
                          THEN [kind |-> "tokens", toks |-> tokens]
                          ELSE IF w = "truncated"
                          THEN [kind |-> "malformed", toks |-> <<>>]
                          ELSE tokenFile
          /\ auth' = [auth EXCEPT
                         !.stores = Append(@, tokens),
                         !.written = (w = "written"),
                         !.err = storeTokens(marshalled, w = "written"),
                         !.pc = IF storeTokens(marshalled, w = "written") = "nil"
                                THEN "return" ELSE "done"]
    /\ UNCHANGED <<configs, tokens, accounts, resp, activeAccountID, pc, op,
                   arg, inner, tmp, half, client, client2, o, pageToken,
                   files, reqs, ret, fresh, listing, pollVars>>

\* Lines 224-236: one turn of the loop that builds the configs alone.
AuthorizeConfig ==
    /\ auth.pc = "configs"
    /\ IF auth.i <= Len(accounts)
       THEN /\ configs' = Append(configs, accounts[auth.i])
            /\ auth' = [auth EXCEPT !.i = @ + 1]
       ELSE /\ auth' = [auth EXCEPT !.pc = "return", !.err = "nil"]
            /\ UNCHANGED configs
    /\ UNCHANGED <<tokens, accounts, tokenFile, resp, activeAccountID, pc, op,
                   arg, inner, tmp, half, client, client2, o, pageToken,
                   files, reqs, ret, fresh, listing, pollVars>>

\* Lines 44-46: go drive.startAutoRefresh(); return &drive, nil.
NewDriveClientReturn ==
    /\ auth.pc = "return"
    /\ auth' = [auth EXCEPT !.pc = "done"]
    /\ pc' = [pc EXCEPT ![Poller] = "getClient"]
    /\ UNCHANGED <<poolVars, accounts, tokenFile, resp, activeAccountID, op,
                   arg, inner, tmp, half, client, client2, o, pageToken,
                   files, reqs, ret, fresh, listing, pollVars>>

\* ---------------------------------------------------------- specifications
\* No caller is inside the gateway, and the poller has done nothing yet.
InitLocals ==
    /\ op = [p \in Procs |-> IF p = Poller THEN "startAutoRefresh" ELSE ""]
    /\ arg = [p \in Procs |-> "a"]
    /\ inner = [p \in Procs |-> FALSE]
    /\ tmp = [p \in Procs |-> 0]
    /\ half = [p \in Procs |-> 0]
    /\ client = [p \in Procs |-> NoClient]
    /\ client2 = [p \in Procs |-> NoClient]
    /\ o = [p \in Procs |-> NoFile]
    /\ pageToken = [p \in Procs |-> 0]
    /\ files = [p \in Procs |-> <<>>]
    /\ reqs = [p \in Procs |-> <<>>]
    /\ ret = [p \in Procs |-> NoRet]
    /\ resp = [p \in Procs |-> NoResp]
    /\ fresh = [p \in Procs |-> {"client"}]
    /\ now = 0
    /\ lastCheck = 0
    /\ checkDate = 0
    /\ mtime = [f \in PollFiles |-> 0]
    /\ tick = NoTick

\* The state NewDriveClient leaves on a first run, when there was no token
\* file: authorize has built one config and one token per account and has
\* written the tokens, the first account is active, the poller goroutine has
\* been started and no caller is inside the gateway yet.
InitPool(n) ==
    /\ configs = [i \in 1..n |-> i]
    /\ tokens = [i \in 1..n |-> i]
    /\ activeAccountID = 1
    /\ pc = [p \in Procs |-> IF p = Poller THEN "getClient" ELSE "idle"]
    /\ accounts = [i \in 1..n |-> i]
    /\ tokenFile = [kind |-> "tokens", toks |-> [i \in 1..n |-> WebToken(i)]]
    /\ auth = [pc |-> "done", i |-> n + 1, loaded |-> <<>>,
               exchanges |-> [i \in 1..n |-> i],
               stores |-> << [i \in 1..n |-> WebToken(i)] >>,
               written |-> TRUE, err |-> "nil"]
    /\ InitLocals

\* Concurrent callers; the parent listed has two pages of one file each.
Init ==
    /\ \E n \in 1..MaxAccounts : InitPool(n)
    /\ listing = PagesFrom(<<1, 1>>, 1)

\* One caller; the parent listed has any of the bounded listings.
InitSingle ==
    /\ \E n \in 1..MaxAccounts : InitPool(n)
    /\ listing \in Listings

CallerNext(p) ==
    \/ RotateCall(p) \/ RotateCompare(p) \/ RotateReset(p)
    \/ RotateRead(p) \/ RotateWrite(p)
    \/ Call(p) \/ GetClientConfig(p) \/ GetClientToken(p)
    \/ OpenCall(p) \/ GetNativeClientConfig(p) \/ GetNativeClientToken(p)
    \/ GetObjectFetch(p) \/ FileSizeDownload(p)
    \/ GetObjectsByParentPage(p) \/ GetFileByNameAndParentQuery(p)
    \/ GetFileByNameAndParentScan(p)

\* Any number of callers use the gateway concurrently.
Next == \E p \in Callers : CallerNext(p)

Spec == Init /\ [][Next]_vars

\* One caller uses the gateway.
NextSingle == CallerNext("c1")

SpecSingle == InitSingle /\ [][NextSingle]_vars

\* The poller goroutine, with the clock and the remote files.
InitPoll ==
    /\ \E n \in 1..MaxAccounts : InitPool(n)
    /\ listing = << <<>> >>

NextPoll ==
    \/ GetClientConfig(Poller) \/ GetClientToken(Poller)
    \/ PollInit \/ PollTick \/ PollPage
    \/ AdvanceClock
    \/ \E f \in PollFiles : Modify(f)

SpecPoll == InitPoll /\ [][NextPoll]_vars

\* The poller goroutine next to a caller that rotates the accounts.
NextPollRotate ==
    \/ NextPoll
    \/ RotateCall("c1") \/ RotateCompare("c1") \/ RotateReset("c1")
    \/ RotateRead("c1") \/ RotateWrite("c1")

SpecPollRotate == InitPoll /\ [][NextPollRotate]_vars

\* Construction: NewDriveClient runs authorize against any of the bounded
\* token files, and starts the poller, which builds its client.
InitAuth ==
    /\ \E n \in 1..MaxAccounts : accounts = [i \in 1..n |-> i]
    /\ tokenFile \in TokenFiles
    /\ configs = <<>>
    /\ tokens = <<>>
    /\ activeAccountID = 1
    /\ auth = NoAuth
    /\ pc = [p \in Procs |-> IF p = Poller THEN "unstarted" ELSE "idle"]
    /\ listing = << <<>> >>
    /\ InitLocals

NextAuth ==
    \/ AuthorizeLoad \/ GetTokenFromWeb \/ AuthorizeStore
    \/ AuthorizeConfig \/ NewDriveClientReturn
    \/ GetClientConfig(Poller) \/ GetClientToken(Poller) \/ PollInit

SpecAuth == InitAuth /\ [][NextAuth]_vars

\* ------------------------------------------------------------------ claims
ActivePair == [cfg |-> configs[activeAccountID], tok |-> tokens[activeAccountID]]

AllAnswered(rs) == \A i \in 1..Len(rs) : rs[i].ok

\* Each request after the first carries the token the previous page returned.
TokensChain(rs, pages) ==
    \A i \in 1..Len(rs) :
        rs[i].token = IF i = 1 THEN 0
                      ELSE ServePage(pages, rs[i - 1].token).NextPageToken

Listed(p) == pc[p] = "idle" /\ ret[p].op = "GetObjectsByParent"

\* C1 (as claimed): in every reachable state, concurrent rotations included,
\* 1 <= activeAccountID <= len(configs).
C1_IndexInPool == 1 <= activeAccountID /\ activeAccountID <= Len(configs)

\* C2: with a single caller, every rotateAccounts() that completes takes the
\* active index i to (i mod N) + 1, so the index runs 1, 2, ..., N, 1, ...
C2_RotationIsCyclic ==
    [][(pc["c1"] \in {"rotate_reset", "rotate_write"} /\ pc'["c1"] = "idle")
        => activeAccountID' = (activeAccountID % Len(configs)) + 1]_vars

\* A rotation has wrapped a pool of several accounts back to the first one.
C2_Wrapped ==
    /\ Len(configs) >= 2
    /\ pc["c1"] = "idle" /\ ret["c1"].op = "rotateAccounts"
    /\ activeAccountID = 1

\* C3: a client whose construction began after the last write of the active
\* index (no rotation has written since) is built from configs[j] and
\* tokens[j], j being the active index.
C3_ClientsUseActiveAccount ==
    \A p \in Procs :
        /\ ("client" \in fresh[p] /\ client[p] # NoClient) => client[p] = ActivePair
        /\ ("client2" \in fresh[p] /\ client2[p] # NoClient) => client2[p] = ActivePair

\* A rotation has left the index at 2 and a caller has since built its client.
C3_ClientAfterRotation ==
    \E p \in Callers :
        /\ activeAccountID = 2
        /\ "client" \in fresh[p]
        /\ client[p] = [cfg |-> configs[2], tok |-> tokens[2]]
        /\ reqs[p] # <<>>

\* The client pairs the config and the token of one account.
OneAccount(c) ==
    \E i \in 1..Len(configs) : c = [cfg |-> configs[i], tok |-> tokens[i]]

\* C4 (as claimed): every remote request of one invocation goes out with the
\* credential of the client the invocation obtained, whatever rotations run
\* meanwhile.  It is stated for the invocations whose client is the pair of
\* one account, so that a violation does not rest on a torn client (C5).
C4_OneCredentialPerInvocation ==
    \A p \in Callers :
        OneAccount(client[p]) =>
            \A i \in 1..Len(reqs[p]) : reqs[p][i].cred = client[p]

\* C5 (as claimed): every client built pairs configs[i] with tokens[i] for
\* one and the same index i.
C5_ConsistentSnapshot ==
    \A p \in Procs : \A c \in {client[p], client2[p]} :
        c # NoClient => OneAccount(c)

\* C6: a listing all of whose page fetches succeed issues exactly one request
\* per page, each after the first with the token the previous page returned,
\* and returns the concatenation of the pages in order.
C6_ListingReturnsAllPages ==
    \A p \in Callers :
        (Listed(p) /\ reqs[p] # <<>> /\ AllAnswered(reqs[p])) =>
            /\ Len(reqs[p]) = Len(listing)
            /\ \A i \in 1..Len(reqs[p]) : reqs[p][i].api = "Files.List"
            /\ TokensChain(reqs[p], listing)
            /\ ret[p].err = "nil"
            /\ ret[p].val = MapObjects(Flatten(listing))

\* A listing of several pages and at least three files has been returned whole.
C6_ListedSeveralPages ==
    \E p \in Callers :
        /\ Listed(p) /\ AllAnswered(reqs[p])
        /\ Len(reqs[p]) >= 2
        /\ Len(ret[p].val) >= 3

\* C7: once the client is there, a failed page fetch is the last request of
\* the listing, which returns a nil error with the files of the pages before
\* it, in order.
C7_ListingSwallowsPageError ==
    \A p \in Callers :
        /\ pc[p] = "GetObjectsByParent_page" =>
              (AllAnswered(reqs[p]) /\ TokensChain(reqs[p], listing))
        /\ (Listed(p) /\ ~AllAnswered(reqs[p])) =>
              LET k == Len(reqs[p])
              IN  /\ ~reqs[p][k].ok
                  /\ \A i \in 1..(k - 1) : reqs[p][i].ok
                  /\ TokensChain(reqs[p], listing)
                  /\ ret[p].err = "nil"
                  /\ ret[p].val = MapObjects(
                                      Flatten(SubSeq(listing, 1, k - 1)))

\* The fetch of the second page failed after a first page with files in it.
C7_FailedOnSecondPage ==
    \E p \in Callers :
        /\ Listed(p) /\ Len(reqs[p]) = 2 /\ ~reqs[p][2].ok
        /\ ret[p].val # <<>>

\* From the start of a tick on, the checkpoint holds the clock value read at
\* the start of that tick.
CheckpointWrittenAtTickStart == tick.n >= 1 => lastCheck = tick.start

\* The checkpoint is written by the step that starts a tick (and by line 55,
\* before the first tick), and by no other step.
CheckpointWrittenOncePerTick ==
    lastCheck' # lastCheck =>
        \/ pc[Poller] = "poll_wait" /\ pc'[Poller] = "poll_page"
        \/ pc[Poller] = "startAutoRefresh_init"

\* C8 (as claimed): ... and every page request of the tick filters on
\* modification times greater than the clock value read at the start of the
\* tick before.
C8_QueryFromPreviousCheckpoint ==
    /\ CheckpointWrittenAtTickStart
    /\ \A i \in 1..Len(tick.reqs) :
          ParseRFC3339(tick.reqs[i].bound) = tick.prevStart

\* C8 (amended): ... and every page request of the tick filters on
\* modification times greater than the start of the whole second that holds
\* the clock value read at the start of the tick before.
C8_QueryFromPreviousCheckpointSecond ==
    /\ [](/\ CheckpointWrittenAtTickStart
          /\ \A i \in 1..Len(tick.reqs) :
                LET b == ParseRFC3339(tick.reqs[i].bound)
                IN  b <= tick.prevStart /\ tick.prevStart < b + Res)
    /\ [][CheckpointWrittenOncePerTick]_vars

\* A second or later tick queries from a checkpoint that fell inside a second.
C8_SecondTickQueries ==
    /\ tick.n >= 2
    /\ tick.reqs # <<>>
    /\ tick.prevStart % Res # 0

\* C9: a tick whose page k fails has stored every file of the pages before
\* it and asks for nothing more; every tick begins with an empty token.
C9_AbortedTickKeepsEarlierPages ==
    /\ tick.aborted =>
          LET k == Len(tick.reqs)
          IN  /\ pc[Poller] = "poll_wait"
              /\ ~tick.reqs[k].ok
              /\ \A i \in 1..(k - 1) : tick.reqs[i].ok
              /\ Len(tick.served) = k - 1
              /\ tick.stored = MapObjects(Flatten(tick.served))
    /\ (pc[Poller] = "poll_page" /\ tick.reqs = <<>>) => pageToken[Poller] = 0
    /\ tick.reqs # <<>> => tick.reqs[1].token = 0

\* The tick after an aborted one stored its first page and failed on its second.
C9_AbortAfterAbort ==
    /\ tick.afterAbort
    /\ tick.aborted
    /\ Len(tick.reqs) = 2
    /\ tick.stored # <<>>

\* C10 (as claimed): a tick that aborts on a page-fetch failure leaves the
\* checkpoint at the value it had before the tick.
C10_AbortKeepsCheckpoint == tick.aborted => lastCheck = tick.prevStart


\* ---- construction
Authorized == auth.pc \in {"return", "done"} /\ auth.err = "nil"

\* One token per account, each from that account's consent exchange.
ConsentTokens == [i \in 1..Len(accounts) |-> WebToken(accounts[i])]

IsPrefix(s, t) == Len(s) <= Len(t) /\ \A i \in 1..Len(s) : s[i] = t[i]

FirstRun == auth.pc # "authorize" /\ auth.loaded = <<>>

OneExchangeAtATime ==
    /\ Len(auth'.exchanges) <= Len(auth.exchanges) + 1
    /\ IsPrefix(auth.exchanges, auth'.exchanges)

\* C11: with an empty token store (unreadable, malformed or holding no
\* token), authorize makes the consent exchanges one at a time in account
\* order, stores nothing before all of them are made, and then calls
\* storeTokens exactly once, with exactly one token per account, the i-th
\* being the one account i's exchange returned; a write that succeeds leaves
\* exactly that sequence in the token file.
C11_FirstRunConsentsThenStores ==
    /\ [](FirstRun =>
            /\ IsPrefix(auth.exchanges, accounts)
            /\ auth.pc \in {"getTokenFromWeb", "fatal"} =>
                  /\ auth.stores = <<>>
                  /\ Len(auth.exchanges) < Len(accounts)
            /\ auth.pc = "getTokenFromWeb" => Len(auth.exchanges) = auth.i - 1
            /\ auth.pc = "storeTokens" =>
                  /\ auth.exchanges = accounts
                  /\ auth.stores = <<>>
            /\ auth.pc \in {"return", "done"} =>
                  /\ auth.exchanges = accounts
                  /\ auth.stores = <<ConsentTokens>>
                  /\ auth.written =>
                        tokenFile = [kind |-> "tokens", toks |-> ConsentTokens])
    /\ [][OneExchangeAtATime]_vars

C11_FirstRunOfAllAccounts ==
    /\ FirstRun
    /\ Authorized
    /\ Len(accounts) = MaxAccounts
    /\ Len(auth.exchanges) = MaxAccounts
    /\ auth.written

StoredRun == auth.pc # "authorize" /\ Len(auth.loaded) >= Len(accounts)

\* C12: when the token file holds at least as many tokens as there are
\* accounts, authorize makes no consent exchange and never calls storeTokens,
\* the token file and the loaded token sequence stay as they were, and the
\* configs are built one per account in account order.
C12_StoredTokensAreReused ==
    StoredRun =>
        /\ auth.pc \in {"configs", "return", "done"}
        /\ auth.exchanges = <<>>
        /\ auth.stores = <<>>
        /\ tokens = auth.loaded
        /\ tokenFile = [kind |-> "tokens", toks |-> auth.loaded]
        /\ IsPrefix(configs, accounts)
        /\ auth.pc \in {"return", "done"} =>
              /\ configs = accounts
              /\ auth.err = "nil"

C12_ReusedMoreTokensThanAccounts ==
    /\ StoredRun
    /\ auth.pc = "done"
    /\ Len(accounts) = MaxAccounts
    /\ Len(tokens) > Len(accounts)

\* C13: after authorize, when the token file held fewer tokens than there
\* are accounts, there are exactly as many tokens as configs as accounts,
\* and the token at each index is the one that account's consent exchange
\* returned.
C13_OneTokenPerAccount ==
    (Authorized /\ Len(auth.loaded) < Len(accounts)) =>
        /\ Len(configs) = Len(accounts)
        /\ Len(tokens) = Len(accounts)
        /\ tokens = ConsentTokens

\* C14: when storeTokens was called and the tokens did not reach the token
\* file, storeTokens and authorize return an error and NewDriveClient does
\* not report success.
C14_StoreFailureIsReported ==
    (auth.stores # <<>> /\ ~auth.written) =>
        /\ auth.err # "nil"
        /\ auth.pc # "return"

\* ---- GetObject, FileSize, GetFileByNameAndParent
Returned(p, f) == pc[p] = "idle" /\ ret[p].op = f

\* What the step that ends the metadata fetch does.
FollowUpIffZero(p) ==
    (pc[p] = "GetObject_fetch" /\ pc'[p] # "GetObject_fetch") =>
        IF ~reqs'[p][Len(reqs'[p])].ok
        THEN /\ ~inner'[p]
             /\ pc'[p] = "idle"
             /\ ret'[p].err = "fetch"
        ELSE \/ /\ inner'[p]
                /\ pc'[p] = "getClient"
                /\ o'[p].FileSize = 0
             \/ /\ ~inner'[p]
                /\ pc'[p] = "idle"
                /\ ret'[p].err = "nil"
                /\ ret'[p].val[1].Size # Uint64(0)

FollowUpOnlyAfterFetch(p) == (inner'[p] /\ ~inner[p]) => pc[p] = "GetObject_fetch"

\* C15: GetObject starts the follow-up FileSize exactly when the metadata
\* fetch succeeded and reported a size of zero; when the follow-up fails
\* (its download fails or is answered with a status other than 200)
\* GetObject returns success with the size the metadata reported; a
\* follow-up that succeeds gives the size it returned; and GetObject returns
\* an error only when its client cannot be built or the metadata fetch fails.
C15_FollowUpOnZeroSizeOnly ==
    /\ [](\A p \in Callers :
            /\ inner[p] =>
                  /\ op[p] = "GetObject"
                  /\ Len(reqs[p]) = 1
                  /\ reqs[p][1].ok
                  /\ o[p].FileSize = 0
            /\ Returned(p, "GetObject") =>
                  /\ ret[p].err \in {"nil", "client", "fetch"}
                  /\ ret[p].err = "client" <=> reqs[p] = <<>>
                  /\ ret[p].err = "fetch" <=>
                        (Len(reqs[p]) = 1 /\ ~reqs[p][1].ok)
                  /\ Len(reqs[p]) = 2 =>
                        /\ reqs[p][2].api = "Files.Get.Download"
                        /\ ret[p].val[1].Size =
                              IF reqs[p][2].ok /\ resp[p].status = 200
                              THEN Uint64(resp[p].length)
                              ELSE Uint64(0))
    /\ [][\A p \in Callers : FollowUpIffZero(p) /\ FollowUpOnlyAfterFetch(p)]_vars

C15_FollowUpFailed ==
    \E p \in Callers :
        /\ Returned(p, "GetObject")
        /\ Len(reqs[p]) = 2
        /\ resp[p].status = 403
        /\ ret[p].err = "nil"

\* C16: once FileSize or GetObject has returned, the response its download
\* obtained is closed, whichever status it carried.
C16_ResponsesAreClosed ==
    \A p \in Callers : pc[p] = "idle" => resp[p].closed

Titled(items, name) == {i \in 1..Len(items) : items[i].Title = name}

Least(S) == CHOOSE i \in S : \A j \in S : i <= j

ScanReturnsFirst(p) ==
    (pc[p] = "GetFileByNameAndParent_scan" /\ pc'[p] = "idle") =>
        IF Titled(resp[p].items, arg[p]) = {}
        THEN /\ ret'[p].err = "notfound"
             /\ ret'[p].val = <<arg[p], Parent>>
        ELSE /\ ret'[p].err = "nil"
             /\ ret'[p].val = <<resp[p].items[Least(Titled(resp[p].items, arg[p]))]>>

\* C18: GetFileByNameAndParent returns the first of the returned items, in
\* the order the service gave them, whose title equals the name; it returns
\* the not-found error, which names the name and the parent, exactly when
\* no returned item has that title; and a query that fails is returned as
\* the query's error, never as not-found and never as a match.
C18_FirstExactTitleMatch ==
    /\ [](\A p \in Callers :
            /\ pc[p] = "GetFileByNameAndParent_scan" =>
                  (Len(reqs[p]) = 1 /\ reqs[p][1].ok)
            /\ Returned(p, "GetFileByNameAndParent") =>
                  /\ ret[p].err \in {"nil", "notfound", "query", "client"}
                  /\ ret[p].err = "client" <=> reqs[p] = <<>>
                  /\ ret[p].err = "query" <=>
                        (Len(reqs[p]) = 1 /\ ~reqs[p][1].ok))
    /\ [][\A p \in Callers : ScanReturnsFirst(p)]_vars

C18_FirstOfTwoMatches ==
    \E p \in Callers :
        /\ Returned(p, "GetFileByNameAndParent")
        /\ ret[p].err = "nil"
        /\ ret[p].val[1].Id = 3

\* C19: the Size of the object GetObject returns is the byte count itself:
\* a value below 2^16 in the model, whose three upper limbs are zero, and
\* the Content-Length when the follow-up download supplied it.
C19_SizeIsTheByteCount ==
    \A p \in Callers :
        (Returned(p, "GetObject") /\ ret[p].err = "nil") =>
            /\ \A k \in 1..3 : ret[p].val[1].Size[k] = 0
            /\ (Len(reqs[p]) = 2 /\ reqs[p][2].ok /\ resp[p].status = 200) =>
                  ret[p].val[1].Size[4] = resp[p].length

\* ---- the poller's start
PollerStartStep ==
    (pc[Poller] = "getClient_tok" /\ pc'[Poller] # "getClient_tok") =>
        pc'[Poller] = IF client'[Poller] = NoClient
                      THEN "returned" ELSE "startAutoRefresh_init"

\* C17: when the poller cannot build its client at its start it returns and
\* stays returned: it never asks for a client again, issues no change query
\* and stores nothing in the cache, whatever time passes and whatever is
\* modified remotely, and no error reaches NewDriveClient's caller or any
\* caller of the gateway.
C17_FailedStartEndsPoller ==
    /\ [](pc[Poller] = "returned" =>
            /\ client[Poller] = NoClient
            /\ reqs[Poller] = <<>>
            /\ tick = NoTick
            /\ ret[Poller] = NoRet
            /\ auth.err = "nil"
            /\ \A c \in Callers : ret[c] = NoRet)
    /\ [][/\ pc[Poller] = "returned" => pc'[Poller] = "returned"
          /\ PollerStartStep]_vars

C17_ReturnedWhileFilesChange ==
    /\ pc[Poller] = "returned"
    /\ now = MaxClock
    /\ \E f \in PollFiles : mtime[f] > 0

PollerClientIsKept ==
    client[Poller] # NoClient => client'[Poller] = client[Poller]

\* C20: the poller builds its client once, before its first tick, from the
\* config and the token of the account active at that moment; every page
\* request of every tick carries that client's credential, and no
\* rotateAccounts() changes it.
C20_PollerKeepsItsFirstCredential ==
    /\ [](/\ client[Poller] # NoClient => OneAccount(client[Poller])
          /\ tick.n > 0 => client[Poller] # NoClient
          /\ \A i \in 1..Len(tick.reqs) : tick.reqs[i].cred = client[Poller])
    /\ [][PollerClientIsKept]_vars

====
